---- MODULE Spec2Model ----
(***************************************************************************)
(* A model of utils/diff_model_converter.py: the ClassFinder dependency    *)
(* analysis, the ReplaceNameTransformer, the SuperTransformer splicing and *)
(* the DiffConverterTransformer that assembles the modeling and the        *)
(* configuration module from a diff file.                                  *)
(*                                                                         *)
(* Source text is modelled as token sequences where the code parses it     *)
(* (dotted paths, identifiers that are renamed) and as records where the   *)
(* code only compares it.  A name is [mdl, stem, tail]: the model the name *)
(* is built from (snake_case tokens, <<>> for none), the rest of the       *)
(* identifier, and what code_for_node renders after it ("" or ", ").       *)
(***************************************************************************)
EXTENDS Integers, Sequences, FiniteSets, TLC

VARIABLES
  \* ---- DiffConverterTransformer / convert_file ----
  diff,                 \* the top-level statements of the diff file walked so far
  pending,              \* TRUE between visit_ImportFrom and leave_SimpleStatementLine
  transformers_imports, \* dotted paths whose source was loaded and parsed
  imported_mapping,     \* set of <<imported name, dotted path>>
  visited_module,       \* path -> ClassFinder result of the renamed module
  new_body,             \* the output map, in dict insertion order
  inserted_deps,        \* names claimed as dependencies
  all_imports,          \* import nodes of the diff file
  global_scope_index,
  config_body,          \* the list reserved for the configuration file
  has_config_body,      \* hasattr(self, "config_body")
  phase,                \* "walk" | "raised" | "left" | "written"
  err,                  \* the exception that ended the walk, "" for none
  module_body,          \* body of the module returned by leave_Module
  files,                \* output files written by convert_file
  renamer_calls,        \* history: <<path, old_id>> of each find_classes_in_file call
  resolved,             \* history: [class_name, path, deps] of each base class resolved
  files_to_parse,       \* __main__: the number of diff files of the run
  parsed_stmts,         \* the statements of the files converted before this one
  file_no,              \* __main__: the file being converted, 1 for the first
  read_log,             \* history: <<file_no, path>> of each get_module_source_from_name
  analysis_log          \* history: <<file_no, path>> of each find_classes_in_file

convVars == <<diff, pending, transformers_imports, imported_mapping, visited_module,
              new_body, inserted_deps, all_imports, global_scope_index, config_body,
              has_config_body, phase, err, module_body, files, renamer_calls, resolved,
              files_to_parse, parsed_stmts, file_no, read_log, analysis_log>>

VARIABLES
  \* ---- ReplaceNameTransformer.preserve_case_replace ----
  r_old, r_new,         \* the two snake_case identifiers
  r_text,               \* the input text
  r_out,                \* the text after ReplaceNameTransformer(old, new)
  r_back,               \* r_out after ReplaceNameTransformer(new, old)
  r_pc                  \* "idle" | "text" | "renamed" | "back"

renVars == <<r_old, r_new, r_text, r_out, r_back, r_pc>>

VARIABLES
  \* ---- SuperTransformer ----
  s_base,               \* body of the base class's method m
  s_override,           \* body of the diff class's method m
  s_result,             \* body returned by replace_super_calls
  s_pc,                 \* "idle" | "parsed" | "spliced" | "raised"
  s_i                   \* the statements of s_override left so far

superVars == <<s_base, s_override, s_result, s_pc, s_i>>

VARIABLES
  \* ---- ClassFinder traversal ----
  finder,               \* the ClassFinder's dicts
  f_cur,                \* the top-level statement being traversed, <<>> between two
  f_arg,                \* index of the next base Arg of f_cur to leave
  f_refs,               \* Name nodes visited in the body of f_cur
  f_n,                  \* definitions entered so far, nested ones included
  f_ev,                 \* the last visitor callback
  f_top                 \* the names the module defines at its top level, so far

finderVars == <<finder, f_cur, f_arg, f_refs, f_n, f_ev, f_top>>

VARIABLES
  \* ---- replace_call_to_super ----
  c_original,           \* the methods of the renamed base class, in body order
  c_updated,            \* the methods of the diff class, in body order
  c_result,             \* the methods of the class replace_call_to_super returns
  c_pc                  \* "idle" | "parsed" | "merged"

mergeVars == <<c_original, c_updated, c_result, c_pc>>

VARIABLES
  i_refs,               \* the names the body of the base class refers to
  i_body,               \* new_body of a transformer walking definitions, then a class
  i_claimed,            \* its inserted_deps
  i_index,              \* its global_scope_index
  i_pc                  \* "idle" | "walk" | "class"

insVars == <<i_refs, i_body, i_claimed, i_index, i_pc>>

vars == <<convVars, renVars, superVars, finderVars, mergeVars, insVars>>

-----------------------------------------------------------------------------
(* Bounds of the model                                                     *)

MaxStmts == 3
MaxFiles == 2
MaxBatchStmts == 2

\* top-level statements of the diff file at hand: MaxStmts for a run over
\* one file; the files of a run over several hold MaxBatchStmts together
StmtBound == IF files_to_parse > 1 THEN MaxBatchStmts - parsed_stmts ELSE MaxStmts

-----------------------------------------------------------------------------
(* Names, dotted paths                                                     *)

Name(m, s) == [mdl |-> m, stem |-> s, tail |-> ""]

Llama == <<"llama">>
LayoutXlm == <<"layout", "_", "xlm">>
Gemma == <<"gemma">>
NoModel == <<>>

\* transformers.models.<dir>.<kind>_<model>
ModelPath(dir, kind, model) ==
  <<"transformers", ".", "models", ".">> \o dir \o <<".", kind, "_">> \o model

P_llama_modeling == ModelPath(Llama, "modeling", Llama)
P_llama_configuration == ModelPath(Llama, "configuration", Llama)
P_xlm_modeling == ModelPath(LayoutXlm, "modeling", LayoutXlm)
P_utils == <<"transformers", ".", "configuration", "_", "utils">>

Paths == {P_llama_modeling, P_llama_configuration, P_xlm_modeling, P_utils}

\* the trailing segment of a dotted path, and the <model> of <kind>_<model>
RECURSIVE LastDot(_, _)
LastDot(p, i) == IF i = 0 THEN 0 ELSE IF p[i] = "." THEN i ELSE LastDot(p, i - 1)
TrailingSegment(p) == SubSeq(p, LastDot(p, Len(p)) + 1, Len(p))
RECURSIVE FirstUnderscore(_, _)
FirstUnderscore(p, i) ==
  IF i > Len(p) THEN 0 ELSE IF p[i] = "_" THEN i ELSE FirstUnderscore(p, i + 1)
TrailingModel(p) ==
  LET seg == TrailingSegment(p) IN SubSeq(seg, FirstUnderscore(seg, 1) + 1, Len(seg))

\* re.search(r"transformers\.models\..*\.(modeling|configuration)_.*", path):
\* the greedy .* makes the last ".<kind>_" of the path the one that is captured.
ImportMatches(p) ==
  {i \in 1..Len(p) :
     /\ i + 2 <= Len(p)
     /\ p[i] = "." /\ p[i + 1] \in {"modeling", "configuration"} /\ p[i + 2] = "_"
     /\ \E j \in 1..(i - 4) :
          /\ SubSeq(p, j, j + 3) = <<"transformers", ".", "models", ".">>
          /\ j + 4 <= i}
Max(S) == CHOOSE x \in S : \A y \in S : y <= x
ImportSource(p) == IF ImportMatches(p) = {} THEN "" ELSE p[Max(ImportMatches(p)) + 1]

\* re.search(r"_(\S*)", super_file_name).groups()[0]; <<"no match">> for None
ModelNameOf(p) ==
  IF FirstUnderscore(p, 1) = 0 THEN <<"no match">>
  ELSE SubSeq(p, FirstUnderscore(p, 1) + 1, Len(p))

-----------------------------------------------------------------------------
(* Parsed source: a module is a sequence of top-level statements           *)
(*   [kind |-> "class", name, bases, refs, line, mentions]                 *)
(*   [kind |-> "function", name, bases |-> <<>>, refs, line, mentions]     *)
(*   [kind |-> "assign", name, bases |-> <<>>, refs |-> <<>>, line, ...]   *)
(*   [kind |-> "import", name, ...]                                        *)
(* bases are Arg nodes, refs the Name nodes inside the body in source      *)
(* order, mentions the models whose name occurs in the statement's text.   *)

Arg(value, isName, comma) == [value |-> value, isName |-> isName, comma |-> comma]

\* Module.code_for_node on an Arg: the value, then the Arg's own comma
code_for_node(arg) == [arg.value EXCEPT !.tail = IF arg.comma THEN ", " ELSE ""]

Stmt(kind, name, bases, refs, line, mentions) ==
  [kind |-> kind, name |-> name, bases |-> bases, refs |-> refs, line |-> line,
   mentions |-> mentions]

NnModule == Name(NoModel, "nn.Module")
PreTrainedModel == Name(NoModel, "PreTrainedModel")
PretrainedConfig == Name(NoModel, "PretrainedConfig")

\* get_module_source_from_name + cst.parse_module: the module behind a path
ModuleSource(path) ==
  LET m == TrailingModel(path) IN
  IF ImportSource(path) = "modeling" THEN
    << Stmt("import", Name(NoModel, "torch"), <<>>, <<>>, 1, {}),
       Stmt("assign", Name(m, "DOC"), <<>>, <<>>, 2, {m}),
       Stmt("function", Name(NoModel, "act"), <<>>, <<>>, 3, {}),
       Stmt("class", Name(m, "Norm"), <<Arg(NnModule, FALSE, FALSE)>>,
            <<Name(NoModel, "act")>>, 4, {m}),
       Stmt("class", Name(m, "Model"), <<Arg(PreTrainedModel, TRUE, FALSE)>>,
            <<Name(m, "Norm"), Name(m, "DOC")>>, 5, {m}) >>
  ELSE
    << Stmt("import", Name(NoModel, "configuration_utils"), <<>>, <<>>, 1, {}),
       Stmt("class", Name(m, "Config"), <<Arg(PretrainedConfig, TRUE, FALSE)>>,
            <<>>, 2, {m}) >>

-----------------------------------------------------------------------------
(* ReplaceNameTransformer on parsed source (the text-level replacement is  *)
(* preserve_case_replace below): a name built from old_name is rebuilt     *)
(* from new_name, every other name is left as it is.                       *)

replace_name(old_name, new_name, n) ==
  IF n.mdl = old_name /\ old_name # <<>> THEN [n EXCEPT !.mdl = new_name] ELSE n

RenameArg(old_name, new_name, a) ==
  [a EXCEPT !.value = replace_name(old_name, new_name, a.value)]

RenameStmt(old_name, new_name, st) ==
  [st EXCEPT
     !.name = replace_name(old_name, new_name, st.name),
     !.bases = [i \in DOMAIN st.bases |-> RenameArg(old_name, new_name, st.bases[i])],
     !.refs = [i \in DOMAIN st.refs |-> replace_name(old_name, new_name, st.refs[i])],
     !.mentions = {IF m = old_name THEN new_name ELSE m : m \in st.mentions}]

RenameModule(old_name, new_name, module) ==
  [i \in DOMAIN module |-> RenameStmt(old_name, new_name, module[i])]

-----------------------------------------------------------------------------
(* ReplaceNameTransformer on text.  A text is a sequence of characters     *)
(* over the letters a, b (both cases), the digit 1, the underscore and the *)
(* blank.                                                                  *)

LowerLetters == {"a", "b"}
UpperLetters == {"A", "B"}
IsCased(c) == c \in LowerLetters \cup UpperLetters

ToUpper(c) == CASE c = "a" -> "A" [] c = "b" -> "B" [] OTHER -> c
ToLower(c) == CASE c = "A" -> "a" [] c = "B" -> "b" [] OTHER -> c

\* str.upper
upper(str) == [i \in DOMAIN str |-> ToUpper(str[i])]

\* str.title: a cased character is upper-cased when the character before it
\* is not cased, lower-cased otherwise
title(str) ==
  [i \in DOMAIN str |->
     IF i > 1 /\ IsCased(str[i - 1]) THEN ToLower(str[i]) ELSE ToUpper(str[i])]

\* str.split("_")
RECURSIVE split(_, _)
split(str, i) ==
  IF \A j \in i..Len(str) : str[j] # "_" THEN <<SubSeq(str, i, Len(str))>>
  ELSE LET j == CHOOSE j \in i..Len(str) :
                  str[j] = "_" /\ \A k \in i..(j - 1) : str[k] # "_"
       IN <<SubSeq(str, i, j - 1)>> \o split(str, j + 1)

\* "".join(x.title() for x in name.split("_"))
RECURSIVE JoinTitle(_, _)
JoinTitle(parts, i) ==
  IF i > Len(parts) THEN <<>> ELSE title(parts[i]) \o JoinTitle(parts, i + 1)

PascalCase(name) == JoinTitle(split(name, 1), 1)

\* a dict literal: a repeated key keeps its first position and takes the
\* last value
RECURSIVE DictLiteral(_, _, _)
DictLiteral(d, items, i) ==
  IF i > Len(items) THEN d
  ELSE LET k == items[i][1]
           v == items[i][2]
           at == {j \in DOMAIN d : d[j][1] = k}
       IN DictLiteral(IF at = {} THEN Append(d, <<k, v>>)
                      ELSE [d EXCEPT ![CHOOSE j \in at : TRUE] = <<k, v>>],
                      items, i + 1)

\* ReplaceNameTransformer.__init__
ReplaceNameTransformer(old_name, new_name) ==
  [old_name |-> old_name, new_name |-> new_name,
   default_name |-> PascalCase(new_name),
   patterns |-> DictLiteral(<<>>, << <<old_name, new_name>>,
                                     <<upper(old_name), upper(new_name)>>,
                                     <<PascalCase(old_name), PascalCase(new_name)>> >>, 1)]

\* re.IGNORECASE match of one escaped key at position i of text
MatchesAt(text, i, key) ==
  /\ i + Len(key) - 1 <= Len(text)
  /\ \A j \in DOMAIN key : ToLower(text[i + j - 1]) = ToLower(key[j])

\* the alternation: the first key, in dict order, matching at position i
FirstAlternative(patterns, text, i) ==
  LET hits == {k \in DOMAIN patterns : MatchesAt(text, i, patterns[k][1])}
  IN IF hits = {} THEN 0 ELSE CHOOSE k \in hits : \A h \in hits : k <= h

\* patterns.get(word, default_name)
PatternsGet(t, word) ==
  LET at == {k \in DOMAIN t.patterns : t.patterns[k][1] = word}
  IN IF at = {} THEN t.default_name ELSE t.patterns[CHOOSE k \in at : TRUE][2]

\* compiled_regex.sub(replace, text): leftmost non-overlapping matches
RECURSIVE RegexSub(_, _, _)
RegexSub(t, text, i) ==
  IF i > Len(text) THEN <<>>
  ELSE LET k == FirstAlternative(t.patterns, text, i)
       IN IF k = 0 THEN <<text[i]>> \o RegexSub(t, text, i + 1)
          ELSE LET n == Len(t.patterns[k][1])
               IN PatternsGet(t, SubSeq(text, i, i + n - 1)) \o RegexSub(t, text, i + n)

preserve_case_replace(t, text) == RegexSub(t, text, 1)

-----------------------------------------------------------------------------
(* ClassFinder                                                             *)

EmptyDict == [k \in {} |-> {}]
DGet(d, k, default) == IF k \in DOMAIN d THEN d[k] ELSE default
DPut(d, k, v) == [x \in (DOMAIN d) \cup {k} |-> IF x = k THEN v ELSE d[x]]

ClassFinder_init ==
  [classes |-> EmptyDict, assignments |-> EmptyDict, function_def |-> EmptyDict,
   imports |-> EmptyDict, class_dependency_mapping |-> EmptyDict,
   global_nodes |-> EmptyDict, class_start_line |-> EmptyDict]

\* the edge alone, without the dependencies of value
update_class_dependency_direct(cf, name, value) ==
  [cf EXCEPT !.class_dependency_mapping = DPut(@, name, DGet(@, name, {}) \cup {value})]
update_class_dependency(cf, name, value) ==
  LET dep == DGet(cf.class_dependency_mapping, value, {})
               \cup DGet(cf.class_dependency_mapping, name, {}) \cup {value}
  IN [cf EXCEPT !.class_dependency_mapping = DPut(@, name, dep)]

RECURSIVE UpdateBases(_, _, _, _)
UpdateBases(cf, name, bases, i) ==
  IF i > Len(bases) THEN cf
  ELSE UpdateBases(update_class_dependency(cf, name, code_for_node(bases[i])),
                   name, bases, i + 1)

visit_ClassDef(cf, node) ==
  UpdateBases([cf EXCEPT !.classes = DPut(@, node.name, node)], node.name, node.bases, 1)

\* a SimpleStatementLine holding an Assign or an Import; top: its parent is
\* the Module
visit_SimpleStatementLine(cf, node, top) ==
  IF node.kind = "assign" /\ top THEN [cf EXCEPT !.assignments = DPut(@, node.name, node)]
  ELSE IF node.kind = "import" THEN [cf EXCEPT !.imports = DPut(@, node.name, node)]
  ELSE cf

visit_FunctionDef(cf, node, top) ==
  IF top THEN [cf EXCEPT !.function_def = DPut(@, node.name, node)] ELSE cf

Registered(cf) ==
  (DOMAIN cf.classes) \cup (DOMAIN cf.assignments) \cup (DOMAIN cf.function_def)

\* leave_Name without the test of the registered names
leave_Name_unregistered(cf, value, scope) ==
  IF scope # <<>> THEN update_class_dependency(cf, scope[1], value) ELSE cf
\* scope: <<>> for the GlobalScope, else <<top-level symbol>>, the first
\* component of the scope's _name_prefix
leave_Name(cf, value, scope) ==
  IF value \in Registered(cf) /\ scope # <<>>
  THEN update_class_dependency(cf, scope[1], value)
  ELSE cf

\* parent: the Arg's parent is a ClassDef with bases (<<class name>>), else <<>>
leave_Arg(cf, arg, parent) ==
  IF arg.isName /\ parent # <<>>
  THEN update_class_dependency(cf, parent[1], arg.value)
  ELSE cf

ClassFinder_leave_Module(cf) ==
  LET names == Registered(cf)
      node(n) == IF n \in DOMAIN cf.function_def THEN cf.function_def[n]
                 ELSE IF n \in DOMAIN cf.classes THEN cf.classes[n]
                 ELSE cf.assignments[n]
  IN [cf EXCEPT !.global_nodes = [n \in names |-> node(n)],
                !.class_start_line = [n \in names |-> node(n).line]]

\* the visitor callbacks of one top-level statement, in traversal order
Ev(ev, node, value, scope, arg, parent) ==
  [ev |-> ev, node |-> node, value |-> value, scope |-> scope, arg |-> arg,
   parent |-> parent]
NoArg == Arg(Name(NoModel, ""), FALSE, FALSE)

BaseEvents(st, i) ==
  (IF st.bases[i].isName
     THEN <<Ev("leave_Name", st, st.bases[i].value, <<>>, NoArg, <<>>)>> ELSE <<>>)
  \o <<Ev("leave_Arg", st, st.name, <<>>, st.bases[i], <<st.name>>)>>

RECURSIVE AllBaseEvents(_, _)
AllBaseEvents(st, i) ==
  IF i > Len(st.bases) THEN <<>> ELSE BaseEvents(st, i) \o AllBaseEvents(st, i + 1)

StmtEvents(st) ==
  LET own == <<Ev("leave_Name", st, st.name, <<>>, NoArg, <<>>)>>
      body == [i \in DOMAIN st.refs |->
                 Ev("leave_Name", st, st.refs[i], <<st.name>>, NoArg, <<>>)]
  IN IF st.kind = "class"
       THEN <<Ev("visit_ClassDef", st, st.name, <<>>, NoArg, <<>>)>>
              \o own \o AllBaseEvents(st, 1) \o body
     ELSE IF st.kind = "function"
       THEN <<Ev("visit_FunctionDef", st, st.name, <<>>, NoArg, <<>>)>> \o own \o body
     ELSE <<Ev("visit_SimpleStatementLine", st, st.name, <<>>, NoArg, <<>>)>> \o own

ApplyEvent(cf, e) ==
  CASE e.ev = "visit_ClassDef" -> visit_ClassDef(cf, e.node)
    [] e.ev = "visit_FunctionDef" -> visit_FunctionDef(cf, e.node, TRUE)
    [] e.ev = "visit_SimpleStatementLine" -> visit_SimpleStatementLine(cf, e.node, TRUE)
    [] e.ev = "leave_Name" -> leave_Name(cf, e.value, e.scope)
    [] e.ev = "leave_Arg" -> leave_Arg(cf, e.arg, e.parent)

RECURSIVE ApplyEvents(_, _, _)
ApplyEvents(cf, es, i) ==
  IF i > Len(es) THEN cf ELSE ApplyEvents(ApplyEvent(cf, es[i]), es, i + 1)

RECURSIVE VisitStmts(_, _, _)
VisitStmts(cf, module, i) ==
  IF i > Len(module) THEN cf
  ELSE VisitStmts(ApplyEvents(cf, StmtEvents(module[i]), 1), module, i + 1)

\* wrapper.visit(class_finder)
ClassFinder_visit(module) == ClassFinder_leave_Module(VisitStmts(ClassFinder_init, module, 1))

\* find_classes_in_file(module, old_id, new_id)
find_classes_in_file(module, old_id, new_id) ==
  ClassFinder_visit(RenameModule(old_id, new_id, module))

-----------------------------------------------------------------------------
(* SuperTransformer.  A statement of a method body is its source text and  *)
(* the number of blank lines kept in front of it (its leading_lines).      *)

BodyStmt(text, blank) == [text |-> text, blank |-> blank]

DocTexts == {"\"\"\"d1\"\"\"", "\"\"\"d2\"\"\""}
SuperReturn == BodyStmt("return super().m()", 0)
SuperExpr == BodyStmt("super().m()", 0)
SelfSuperReturn == BodyStmt("return self.super()", 0)

\* the statements method bodies are made of
PlainStmts ==
  {BodyStmt("s1", 0), BodyStmt("s1", 1), BodyStmt("s2", 0), BodyStmt("s3", 0)}
    \cup {BodyStmt(d, 0) : d \in DocTexts}
OverrideStmts == PlainStmts \cup {SuperReturn, SuperExpr, SelfSuperReturn}

\* Module.code_for_node on a statement: the leading lines, then the text
stmt_code(stmt) == <<stmt.blank, stmt.text>>
\* str.strip on such a rendering
strip(code) == code[2]

\* no statement is taken for a docstring
DOCSTRING_NODE_never(stmt) == FALSE
\* m.matches(stmt, DOCSTRING_NODE)
DOCSTRING_NODE(stmt) == stmt.text \in DocTexts

\* the pattern of replace_super_calls: `return super().<func_name>(...)` or
\* the bare call, as a statement of its own
IsSuperCall(stmt, func_name) ==
  func_name = "m" /\ stmt.text \in {SuperReturn.text, SuperExpr.text}

\* the Return statements, and the attr of the Attribute that a returned
\* call calls: `m` in `return super().m()`, `super` in `return self.super()`
IsReturn(stmt) == stmt.text \in {SuperReturn.text, SelfSuperReturn.text}
ReturnAttr(stmt) ==
  IF stmt.text = SuperReturn.text THEN "m"
  ELSE IF stmt.text = SelfSuperReturn.text THEN "super"
  ELSE ""

\* m.matches(updated_node.value, m.Call(func=m.Attribute(attr=m.Name("super"))))
MatchesSuperAttr(stmt) == ReturnAttr(stmt) = "super"

\* SuperTransformer.leave_Return: the node returned and the exception raised;
\* libcst.matchers has no `matched`, so the test of the inner `if` raises
leave_Return(stmt) ==
  IF MatchesSuperAttr(stmt) THEN [node |-> stmt, err |-> "AttributeError"]
  ELSE [node |-> stmt, err |-> ""]

\* update_body without the texts of new_statements
ExistingNodes_empty(new_statements) == {}
\* the set comprehension that opens update_body; existing_nodes holds
\* stripped texts, tagged "str", and, later, the nodes added by the loop,
\* tagged "node"
ExistingNodes(new_statements) ==
  {<<"str", strip(stmt_code(new_statements[i]))>> : i \in DOMAIN new_statements}

RECURSIVE UpdateBodyLoop(_, _, _, _)
UpdateBodyLoop(existing_body, i, existing_nodes, has_docstring) ==
  IF i > Len(existing_body) THEN <<>>
  ELSE LET stmt == existing_body[i] IN
    IF <<"str", strip(stmt_code(stmt))>> \notin existing_nodes
    THEN IF DOCSTRING_NODE(stmt) /\ has_docstring
         THEN UpdateBodyLoop(existing_body, i + 1, existing_nodes, has_docstring)
         ELSE <<stmt>> \o UpdateBodyLoop(existing_body, i + 1,
                                         existing_nodes \cup {<<"node", i>>},
                                         has_docstring)
    ELSE UpdateBodyLoop(existing_body, i + 1, existing_nodes, has_docstring)

update_body(existing_body, new_statements, has_docstring) ==
  UpdateBodyLoop(existing_body, 1, ExistingNodes(new_statements), has_docstring)

RECURSIVE ReplaceLoop(_, _, _, _, _)
ReplaceLoop(body, i, func_name, original_body, has_docstring) ==
  IF i > Len(body) THEN <<>>
  ELSE (IF IsSuperCall(body[i], func_name)
          THEN update_body(original_body, body, has_docstring)
          ELSE <<body[i]>>)
       \o ReplaceLoop(body, i + 1, func_name, original_body, has_docstring)

\* replace_super_calls(node, func_name), original_body being
\* self.original_methods[func_name].body.body
replace_super_calls(body, func_name, original_body) ==
  ReplaceLoop(body, 1, func_name, original_body,
              body # <<>> /\ DOCSTRING_NODE(body[1]))

-----------------------------------------------------------------------------
(* The diff file                                                           *)

\* convert_file: model_name, from the file name diff_<model_name>.py
model_name == Gemma

DStmt(k, name, path, names, bases, mentions) ==
  [k |-> k, name |-> name, path |-> path, names |-> names, bases |-> bases,
   mentions |-> mentions]

NoName == Name(NoModel, "")

ImportNameLists ==
  { <<Name(Llama, "Model")>>, <<Name(Llama, "Config")>>,
    <<Name(Llama, "Model"), Name(Llama, "Config")>>,
    <<Name(Llama, "Model"), Name(Llama, "Norm")>> }

\* from <path> import <names>
ImportFromStmts ==
  {DStmt("ImportFrom", NoName, P_llama_modeling, ns, <<>>, {}) : ns \in ImportNameLists}
  \cup {DStmt("ImportFrom", NoName, P_llama_configuration, <<Name(Llama, "Config")>>, <<>>, {}),
        DStmt("ImportFrom", NoName, P_xlm_modeling, <<Name(LayoutXlm, "Model")>>, <<>>, {}),
        DStmt("ImportFrom", NoName, P_utils, <<PretrainedConfig>>, <<>>, {})}

\* import torch;  GEMMA_DOC = ...
SimpleStmts ==
  {DStmt("Import", Name(NoModel, "torch"), <<>>, <<>>, <<>>, {}),
   DStmt("Assign", Name(Gemma, "DOC"), <<>>, <<>>, <<>>, {Gemma})}

\* def act(...)
FunctionStmts == {DStmt("FunctionDef", Name(NoModel, "act"), <<>>, <<>>, <<>>, {})}

\* class <name>(<bases>): <body>; mentions: the models named in the body
ClassStmts ==
  {DStmt("ClassDef", Name(Gemma, "Model"), <<>>, <<>>,
         <<Arg(Name(Llama, "Model"), TRUE, FALSE)>>, b) : b \in {{Gemma}, {Gemma, Llama}}}
  \cup
  {DStmt("ClassDef", Name(Gemma, "Model"), <<>>, <<>>,
         <<Arg(Name(LayoutXlm, "Model"), TRUE, FALSE)>>, {Gemma}),
   DStmt("ClassDef", Name(Gemma, "Model"), <<>>, <<>>,
         <<Arg(Name(Llama, "Model"), TRUE, TRUE), Arg(Name(Llama, "Norm"), TRUE, FALSE)>>,
         {Gemma}),
   DStmt("ClassDef", Name(Gemma, "Head"), <<>>, <<>>,
         <<Arg(Name(Llama, "Model"), TRUE, FALSE)>>, {Gemma}),
   DStmt("ClassDef", Name(Gemma, "Norm"), <<>>, <<>>,
         <<Arg(NnModule, FALSE, FALSE)>>, {Gemma}),
   DStmt("ClassDef", Name(Gemma, "Norm"), <<>>, <<>>,
         <<Arg(Name(Llama, "Norm"), TRUE, FALSE)>>, {Gemma}),
   DStmt("ClassDef", Name(Gemma, "Config"), <<>>, <<>>,
         <<Arg(PretrainedConfig, TRUE, FALSE)>>, {Gemma}),
   DStmt("ClassDef", Name(Gemma, "Config"), <<>>, <<>>,
         <<Arg(Name(Llama, "Config"), TRUE, FALSE)>>, {Gemma}),
   DStmt("ClassDef", Name(Gemma, "TextConfig"), <<>>, <<>>,
         <<Arg(PretrainedConfig, TRUE, FALSE)>>, {Gemma})}

\* if <test>: <body>; path holds the tokens of the test
IfStmts ==
  {DStmt("If", Name(NoModel, "if FLAG: ..."), <<"FLAG">>, <<>>, <<>>, {Gemma}),
   DStmt("If", Name(NoModel, "if is_torch_available(): ..."),
         <<"is", "_", "torch", "_", "available", "(", ")">>, <<>>, <<>>, {})}

\* "Config" in <text>
ContainsConfig(n) == n.stem \in {"Config", "TextConfig", "PretrainedConfig"}

\* a test on the lower-case spelling, which matches no class name
IsConfigClass_lowercase(class_name) == FALSE
\* leave_ClassDef: "Config" in class_name
IsConfigClass(class_name) == ContainsConfig(class_name)

\* the names the diff file walked so far defines at top level
DefinedNames(d) ==
  {d[i].name : i \in {j \in DOMAIN d : d[j].k \in {"Assign", "FunctionDef", "ClassDef"}}}

\* a diff file defines each top-level name once
Fresh(st) == st.name \notin DefinedNames(diff)

-----------------------------------------------------------------------------
(* The output map new_body: entries [key, insert_idx, node] in dict        *)
(* insertion order; a node is [name, src, kind, mentions, body]            *)

Node(name, src, kind, mentions, body) ==
  [name |-> name, src |-> src, kind |-> kind, mentions |-> mentions, body |-> body]

DiffNode(st) ==
  Node(st.name, "diff", st.k,
       (st.mentions \cup {st.name.mdl} \cup {st.bases[i].value.mdl : i \in DOMAIN st.bases})
          \ {NoModel},
       st.mentions)

BaseNode(st) == Node(st.name, "base", st.kind, st.mentions, {})

Keys(body) == {body[i].key : i \in DOMAIN body}
IndexOf(body, key) == CHOOSE i \in DOMAIN body : body[i].key = key
Entry(body, key) == body[IndexOf(body, key)]

\* self.new_body[key] = {"insert_idx": idx, "node": node}
BodyPut(body, key, idx, node) ==
  LET e == [key |-> key, insert_idx |-> idx, node |-> node]
  IN IF key \in Keys(body)
       THEN [i \in DOMAIN body |-> IF body[i].key = key THEN e ELSE body[i]]
       ELSE Append(body, e)

\* sorted(self.new_body.items(), key=lambda x: x[1]["insert_idx"]): stable
RECURSIVE InsertSorted(_, _)
InsertSorted(sorted, e) ==
  IF sorted = <<>> THEN <<e>>
  ELSE IF sorted[Len(sorted)].insert_idx <= e.insert_idx THEN Append(sorted, e)
  ELSE Append(InsertSorted(SubSeq(sorted, 1, Len(sorted) - 1), e), sorted[Len(sorted)])

RECURSIVE SortedBody(_, _)
SortedBody(body, n) ==
  IF n = 0 THEN <<>> ELSE InsertSorted(SortedBody(body, n - 1), body[n])

-----------------------------------------------------------------------------
(* DiffConverterTransformer                                                *)

\* visit_ImportFrom walks node.names in order; the index of the first name it
\* raises on, 0 for none
RECURSIVE FirstConfig(_, _)
FirstConfig(names, i) ==
  IF i > Len(names) THEN 0
  ELSE IF ContainsConfig(names[i]) THEN i ELSE FirstConfig(names, i + 1)

\* visit_ImportFrom testing only the first imported name
ImportRaisesAt_first(st) ==
  IF Len(st.path) > 1 /\ ImportSource(st.path) = "modeling" /\ ContainsConfig(st.names[1])
  THEN 1 ELSE 0
\* the position in node.names at which visit_ImportFrom raises ValueError, 0
\* if it does not
ImportRaisesAt(st) ==
  IF Len(st.path) > 1 /\ ImportSource(st.path) = "modeling"
  THEN FirstConfig(st.names, 1) ELSE 0

\* nothing is ever found in the cache
InCache_never(path, cache) == FALSE
\* `import_statement not in self.transformers_imports` and `super_file_name
\* not in self.visited_module`, negated
InCache(path, cache) == path \in cache

\* the names of node.names recorded in imported_mapping: all of them, or those
\* before the one that raises
RecordedNames(st) ==
  IF Len(st.path) > 1 /\ ImportSource(st.path) # ""
  THEN {st.names[i] : i \in {j \in DOMAIN st.names :
                               ImportRaisesAt(st) = 0 \/ j < ImportRaisesAt(st)}}
  ELSE {}

visit_ImportFrom ==
  /\ UNCHANGED <<renVars, superVars, finderVars, mergeVars, insVars>>
  /\ UNCHANGED <<files_to_parse, parsed_stmts, file_no, analysis_log>>
  /\ phase = "walk" /\ ~pending /\ Len(diff) < StmtBound
  /\ \E st \in ImportFromStmts :
       /\ diff' = Append(diff, st)
       /\ transformers_imports' =
            IF RecordedNames(st) # {} THEN transformers_imports \cup {st.path}
            ELSE transformers_imports
       /\ read_log' =
            IF RecordedNames(st) # {} /\ ~InCache(st.path, transformers_imports)
            THEN Append(read_log, <<file_no, st.path>>) ELSE read_log
       /\ imported_mapping' =
            [n \in (DOMAIN imported_mapping) \cup RecordedNames(st) |->
               IF n \in RecordedNames(st) THEN st.path ELSE imported_mapping[n]]
       /\ IF ImportRaisesAt(st) # 0
            THEN phase' = "raised" /\ err' = "ValueError" /\ pending' = FALSE
            ELSE phase' = "walk" /\ err' = "" /\ pending' = TRUE
  /\ UNCHANGED <<visited_module, new_body, inserted_deps, all_imports,
                 global_scope_index, config_body, has_config_body, module_body, files,
                 renamer_calls, resolved>>

ImportNode(st) ==
  Node(IF st.k = "Import" THEN st.name ELSE st.names[1], "diff", st.k, {}, {})

leave_SimpleStatementLine ==
  /\ UNCHANGED <<renVars, superVars, finderVars, mergeVars, insVars>>
  /\ UNCHANGED <<files_to_parse, parsed_stmts, file_no, read_log, analysis_log>>
  /\ phase = "walk"
  /\ \/ /\ pending
        /\ pending' = FALSE
        /\ all_imports' =
             IF ImportSource(diff[Len(diff)].path) # "" THEN all_imports
             ELSE Append(all_imports, ImportNode(diff[Len(diff)]))
        /\ UNCHANGED <<diff, new_body, global_scope_index>>
     \/ /\ ~pending /\ Len(diff) < StmtBound
        /\ \E st \in SimpleStmts :
             /\ Fresh(st)
             /\ diff' = Append(diff, st)
             /\ IF st.k = "Import"
                  THEN /\ all_imports' = Append(all_imports, ImportNode(st))
                       /\ UNCHANGED <<new_body, global_scope_index>>
                  ELSE /\ global_scope_index' = global_scope_index + 100
                       /\ new_body' = BodyPut(new_body, st.name, global_scope_index + 100,
                                              DiffNode(st))
                       /\ UNCHANGED all_imports
        /\ UNCHANGED pending
  /\ UNCHANGED <<transformers_imports, imported_mapping, visited_module, inserted_deps,
                 config_body, has_config_body, phase, err, module_body, files,
                 renamer_calls, resolved>>

leave_FunctionDef ==
  /\ UNCHANGED <<renVars, superVars, finderVars, mergeVars, insVars>>
  /\ UNCHANGED <<files_to_parse, parsed_stmts, file_no, read_log, analysis_log>>
  /\ phase = "walk" /\ ~pending /\ Len(diff) < StmtBound
  /\ \E st \in FunctionStmts :
       /\ Fresh(st)
       /\ diff' = Append(diff, st)
       /\ global_scope_index' = global_scope_index + 100
       /\ new_body' = BodyPut(new_body, st.name, global_scope_index + 100, DiffNode(st))
  /\ UNCHANGED <<pending, transformers_imports, imported_mapping, visited_module,
                 inserted_deps, all_imports, config_body, has_config_body, phase, err,
                 module_body, files,
                 renamer_calls, resolved>>

\* no test is taken for an availability guard
AvailabilityTest_never(test) == FALSE
\* re.search(r"[\s\S]*is_.*available", full_statement)
AvailabilityTest(test) ==
  \E i \in 1..(Len(test) - 2) :
    /\ test[i] = "is" /\ test[i + 1] = "_"
    /\ \E j \in (i + 2)..Len(test) : test[j] = "available"

\* the key a simple statement of the same text as the test would have
TestKey(st) == Name(NoModel, st.path[1])

leave_If ==
  /\ UNCHANGED <<renVars, superVars, finderVars, mergeVars, insVars>>
  /\ UNCHANGED <<files_to_parse, parsed_stmts, file_no, read_log, analysis_log>>
  /\ phase = "walk" /\ ~pending /\ Len(diff) < StmtBound
  /\ \E st \in IfStmts :
       /\ \A i \in DOMAIN diff : diff[i] # st
       /\ diff' = Append(diff, st)
       /\ IF AvailabilityTest(st.path)
            THEN /\ all_imports' = Append(all_imports, DiffNode(st))
                 /\ UNCHANGED new_body
            ELSE /\ new_body' =
                      IF TestKey(st) \notin Keys(new_body)
                      THEN BodyPut(new_body, st.name, global_scope_index, DiffNode(st))
                      ELSE new_body
                 /\ UNCHANGED all_imports
  /\ UNCHANGED <<pending, transformers_imports, imported_mapping, visited_module,
                 inserted_deps, global_scope_index, config_body, has_config_body, phase,
                 err, module_body, files, renamer_calls, resolved>>

\* self.visited_module, a dict in insertion order: <<[path, class_finder], ...>>
VisitedPaths(vm) == {vm[i].path : i \in DOMAIN vm}
VisitedFinder(vm, path) == vm[CHOOSE i \in DOMAIN vm : vm[i].path = path].class_finder

\* sorted(list_dependencies.items(), key=lambda x: x[1], reverse=True), the
\* dependencies that have a node in global_nodes
RECURSIVE SortDesc(_, _)
SortDesc(S, line) ==
  IF S = {} THEN <<>>
  ELSE LET x == CHOOSE x \in S : \A y \in S : line[y] <= line[x]
       IN <<x>> \o SortDesc(S \ {x}, line)

\* list_dependencies of leave_ClassDef, sorted: the latest definition first
ListDependencies(class_finder, class_name) ==
  SortDesc(DGet(class_finder.class_dependency_mapping, class_name, {})
             \cap DOMAIN class_finder.global_nodes,
           class_finder.class_start_line)

\* a loop that puts the base module's node under every dependency, whatever
\* new_body holds under that name
RECURSIVE InsertDeps_replacing(_, _, _, _, _)
InsertDeps_replacing(c, class_finder, deps, i, start_insert_idx) ==
  IF i > Len(deps) THEN c
  ELSE InsertDeps_replacing(
         [c EXCEPT !.inserted_deps = @ \cup {deps[i]},
                   !.new_body = BodyPut(@, deps[i], start_insert_idx - 1,
                                        BaseNode(class_finder.global_nodes[deps[i]]))],
         class_finder, deps, i + 1, start_insert_idx - 1)

\* the loop over list_dependencies of leave_ClassDef; c: the fields of the
\* transformer that leave_ClassDef writes
RECURSIVE InsertDeps(_, _, _, _, _)
InsertDeps(c, class_finder, deps, i, start_insert_idx) ==
  IF i > Len(deps) THEN c
  ELSE LET dependency == deps[i]
           node == BaseNode(class_finder.global_nodes[dependency])
           claimed == [c EXCEPT !.inserted_deps = @ \cup {dependency}]
       IN IF dependency \notin Keys(c.new_body)
            THEN InsertDeps([claimed EXCEPT !.new_body =
                               BodyPut(@, dependency, start_insert_idx - 1, node)],
                            class_finder, deps, i + 1, start_insert_idx - 1)
          ELSE IF dependency \notin c.inserted_deps
            THEN InsertDeps(claimed, class_finder, deps, i + 1,
                            Entry(c.new_body, dependency).insert_idx - 1)
          ELSE InsertDeps(claimed, class_finder, deps, i + 1, start_insert_idx)

\* replace_call_to_super: the renamed base class with the diff class's
\* overriding method bodies put in
replace_call_to_super(class_finder, updated_node, class_name) ==
  LET original_node == class_finder.classes[class_name]
  IN Node(class_name, "merged", "ClassDef",
          original_node.mentions \cup updated_node.body, updated_node.body)

\* every base named in the class header
ImportedBases_unfiltered(st, mapping) ==
  SelectSeq([i \in DOMAIN st.bases |-> st.bases[i]], LAMBDA k : k.isName)
\* bases = [k.value.value for k in original_node.bases if k.value.value in
\*          self.imported_mapping]
ImportedBases(st, mapping) ==
  SelectSeq([i \in DOMAIN st.bases |-> st.bases[i]],
            LAMBDA k : k.isName /\ k.value \in DOMAIN mapping)

\* one pass of the loop `for super_class in bases`
LeaveClassBase(c, super_class, class_name, mapping, index) ==
  IF c.err # "" THEN c
  ELSE IF super_class \notin DOMAIN mapping THEN [c EXCEPT !.err = "ImportError"]
  ELSE
    LET super_file_name == mapping[super_class]
        old_id == ModelNameOf(super_file_name)
    IN IF old_id = <<"no match">> THEN [c EXCEPT !.err = "ValueError"]
       ELSE
         LET cached == InCache(super_file_name, VisitedPaths(c.visited_module))
             class_finder ==
               IF cached THEN VisitedFinder(c.visited_module, super_file_name)
               ELSE find_classes_in_file(ModuleSource(super_file_name), old_id, model_name)
             c1 == IF cached THEN c
                   ELSE [c EXCEPT
                           !.visited_module =
                              Append(@, [path |-> super_file_name,
                                         class_finder |-> class_finder]),
                           !.renamer_calls = @ \cup {<<super_file_name, old_id>>},
                           !.analysis_log = Append(@, <<file_no, super_file_name>>)]
             list_dependencies ==
               DGet(class_finder.class_dependency_mapping, class_name, {})
             deps == ListDependencies(class_finder, class_name)
             c2 == InsertDeps([c1 EXCEPT !.resolved = @ \cup
                                 {[class_name |-> class_name, path |-> super_file_name,
                                   deps |-> {deps[i] : i \in DOMAIN deps}]}],
                              class_finder, deps, 1, index)
         IN IF list_dependencies = {} THEN c2
            ELSE IF class_name \notin DOMAIN class_finder.classes
              THEN [c2 EXCEPT !.err = "KeyError"]
            ELSE [c2 EXCEPT !.updated_node =
                    replace_call_to_super(class_finder, @, class_name)]

RECURSIVE LeaveClassBases(_, _, _, _, _, _)
LeaveClassBases(c, bases, i, class_name, mapping, index) ==
  IF i > Len(bases) THEN c
  ELSE LeaveClassBases(LeaveClassBase(c, bases[i].value, class_name, mapping, index),
                       bases, i + 1, class_name, mapping, index)

leave_ClassDef ==
  /\ UNCHANGED <<renVars, superVars, finderVars, mergeVars, insVars>>
  /\ UNCHANGED <<files_to_parse, parsed_stmts, file_no, read_log>>
  /\ phase = "walk" /\ ~pending /\ Len(diff) < StmtBound
  /\ \E st \in ClassStmts :
       /\ Fresh(st)
       /\ diff' = Append(diff, st)
       /\ global_scope_index' = global_scope_index + 100
       /\ LET class_name == st.name
              c0 == [new_body |-> new_body, inserted_deps |-> inserted_deps,
                     visited_module |-> visited_module, renamer_calls |-> renamer_calls,
                     resolved |-> resolved, analysis_log |-> analysis_log,
                     updated_node |-> DiffNode(st), err |-> ""]
              c == LeaveClassBases(c0, ImportedBases(st, imported_mapping), 1, class_name,
                                   imported_mapping, global_scope_index + 100)
          IN /\ visited_module' = c.visited_module
             /\ renamer_calls' = c.renamer_calls
             /\ resolved' = c.resolved
             /\ analysis_log' = c.analysis_log
             /\ inserted_deps' = c.inserted_deps
             /\ err' = c.err
             /\ phase' = IF c.err # "" THEN "raised" ELSE "walk"
             /\ IF c.err # ""
                  THEN new_body' = c.new_body /\ UNCHANGED <<config_body, has_config_body>>
                ELSE IF IsConfigClass(class_name)
                  THEN /\ new_body' = c.new_body
                       /\ config_body' = <<c.updated_node>>
                       /\ has_config_body' = TRUE
                ELSE /\ new_body' = BodyPut(c.new_body, class_name,
                                            global_scope_index + 100, c.updated_node)
                     /\ UNCHANGED <<config_body, has_config_body>>
  /\ UNCHANGED <<pending, transformers_imports, imported_mapping, all_imports,
                 module_body, files>>

\* {code_for_node(k): k for k in nodes}.values(): one node per rendered text
RECURSIVE Dedup(_)
Dedup(nodes) ==
  IF nodes = <<>> THEN <<>>
  ELSE LET front == Dedup(SubSeq(nodes, 1, Len(nodes) - 1))
           last == nodes[Len(nodes)]
       IN IF \E i \in DOMAIN front : front[i] = last THEN front ELSE Append(front, last)

\* the imports of every visited module, module after module
RECURSIVE DependencyImports(_, _)
DependencyImports(vm, i) ==
  IF i > Len(vm) THEN <<>>
  ELSE LET imports == vm[i].class_finder.imports
       IN SortDesc(DOMAIN imports, [n \in DOMAIN imports |-> 0 - imports[n].line])
            \o DependencyImports(vm, i + 1)

ImportBlock(vm, imports) ==
  Dedup([i \in 1..Len(DependencyImports(vm, 1)) |->
           Node(DependencyImports(vm, 1)[i], "base", "Import", {}, {})] \o imports)

Nodes(body) == [i \in DOMAIN body |-> body[i].node]

leave_Module ==
  /\ UNCHANGED <<renVars, superVars, finderVars, mergeVars, insVars>>
  /\ UNCHANGED <<files_to_parse, parsed_stmts, file_no, read_log, analysis_log>>
  /\ phase = "walk" /\ ~pending
  /\ phase' = "left"
  /\ config_body' =
       IF has_config_body THEN Dedup(all_imports) \o config_body ELSE config_body
  /\ module_body' =
       IF Len(new_body) > 0
         THEN ImportBlock(visited_module, all_imports)
                \o Nodes(SortedBody(new_body, Len(new_body)))
         ELSE <<>>
  /\ UNCHANGED <<diff, pending, transformers_imports, imported_mapping, visited_module,
                 new_body, inserted_deps, all_imports, global_scope_index,
                 has_config_body, err, files, renamer_calls, resolved>>

AUTO_GENERATED_MESSAGE == "# This file was automatically generated from <path_to_diff_file.py>."

\* Module.code: the source text of a module, statement after statement
Code(nodes) == [lines |-> nodes, fixed |-> FALSE, formatted |-> FALSE]

\* run_ruff(code, check): `ruff check --fix` when check, `ruff format`
\* otherwise; the statements stay
run_ruff(code, check) ==
  IF check THEN [code EXCEPT !.fixed = TRUE] ELSE [code EXCEPT !.formatted = TRUE]

\* the modeling file written whatever the text
WritesModeling_always(formatted_code) == TRUE
\* len(formatted_code.strip()) > 0
WritesModeling(formatted_code) == Len(formatted_code.lines) > 0

Written(name, nodes) ==
  [n |-> file_no, file |-> name, body |-> nodes,
   text |-> <<AUTO_GENERATED_MESSAGE, run_ruff(run_ruff(Code(nodes), TRUE), FALSE)>>]

\* convert_file, after wrapper.visit
WriteFiles ==
  /\ UNCHANGED <<renVars, superVars, finderVars, mergeVars, insVars>>
  /\ UNCHANGED <<files_to_parse, parsed_stmts, file_no, read_log, analysis_log>>
  /\ phase = "left"
  /\ phase' = "written"
  /\ files' =
       files
       \cup
       (IF WritesModeling(run_ruff(run_ruff(Code(module_body), TRUE), FALSE))
          THEN {Written("modeling", module_body)} ELSE {})
       \cup
       (IF has_config_body THEN {Written("configuration", config_body)} ELSE {})
  /\ UNCHANGED <<diff, pending, transformers_imports, imported_mapping, visited_module,
                 new_body, inserted_deps, all_imports, global_scope_index, config_body,
                 has_config_body, err, module_body, renamer_calls, resolved>>

\* a run over several files goes on after a file that was converted
LoopContinues_isolated(ph) == ph \in {"written", "raised"}
\* __main__: convert_file returned, the loop takes the next file
LoopContinues(ph) == ph = "written"

\* __main__: `for file_name in args.files_to_parse`, the next file, with the
\* DiffConverterTransformer that convert_file makes for it
main_next_file ==
  /\ UNCHANGED <<renVars, superVars, finderVars, mergeVars, insVars>>
  /\ LoopContinues(phase) /\ file_no < files_to_parse
  /\ file_no' = file_no + 1
  /\ parsed_stmts' = parsed_stmts + Len(diff)
  /\ diff' = <<>> /\ pending' = FALSE
  /\ transformers_imports' = {} /\ imported_mapping' = EmptyDict
  /\ visited_module' = <<>> /\ new_body' = <<>> /\ inserted_deps' = {}
  /\ all_imports' = <<>> /\ global_scope_index' = 0
  /\ config_body' = <<>> /\ has_config_body' = FALSE
  /\ phase' = "walk" /\ err' = "" /\ module_body' = <<>>
  /\ renamer_calls' = {} /\ resolved' = {}
  /\ UNCHANGED <<files, files_to_parse, read_log, analysis_log>>

ConvStart(n) ==
  /\ files_to_parse = n /\ parsed_stmts = 0
  /\ file_no = 1
  /\ read_log = <<>>
  /\ analysis_log = <<>>
  /\ diff = <<>>
  /\ pending = FALSE
  /\ transformers_imports = {}
  /\ imported_mapping = EmptyDict
  /\ visited_module = <<>>
  /\ new_body = <<>>
  /\ inserted_deps = {}
  /\ all_imports = <<>>
  /\ global_scope_index = 0
  /\ config_body = <<>>
  /\ has_config_body = FALSE
  /\ phase = "walk"
  /\ err = ""
  /\ module_body = <<>>
  /\ files = {}
  /\ renamer_calls = {}
  /\ resolved = {}

\* one diff file
ConvInit == ConvStart(1)

RenameIdle ==
  /\ r_old = <<>> /\ r_new = <<>> /\ r_text = <<>> /\ r_out = <<>> /\ r_back = <<>>
  /\ r_pc = "idle"

SuperIdle ==
  /\ s_base = <<>> /\ s_override = <<>> /\ s_result = <<>> /\ s_pc = "idle"
  /\ s_i = 0

FinderIdle ==
  /\ finder = ClassFinder_init /\ f_cur = <<>> /\ f_arg = 1 /\ f_refs = 0 /\ f_n = 0
  /\ f_ev = "idle" /\ f_top = {}

MergeIdle ==
  /\ c_original = <<>> /\ c_updated = <<>> /\ c_result = <<>> /\ c_pc = "idle"

InsertIdle ==
  /\ i_refs = {} /\ i_body = <<>> /\ i_claimed = {} /\ i_index = 0 /\ i_pc = "idle"

Init == ConvInit /\ RenameIdle /\ SuperIdle /\ FinderIdle /\ MergeIdle /\ InsertIdle

Next ==
  \/ visit_ImportFrom
  \/ leave_SimpleStatementLine
  \/ leave_FunctionDef
  \/ leave_ClassDef
  \/ leave_If
  \/ leave_Module
  \/ WriteFiles

\* convert_file: the diff file is walked statement by statement, then the
\* output files are written
Spec == Init /\ [][Next]_vars

\* __main__: the files of the run, one after another
BatchInit ==
  /\ ConvStart(MaxFiles)
  /\ RenameIdle /\ SuperIdle /\ FinderIdle /\ MergeIdle /\ InsertIdle

BatchNext ==
  \/ visit_ImportFrom
  \/ leave_SimpleStatementLine
  \/ leave_FunctionDef
  \/ leave_ClassDef
  \/ leave_If
  \/ leave_Module
  \/ WriteFiles
  \/ main_next_file

BatchSpec == BatchInit /\ [][BatchNext]_vars

-----------------------------------------------------------------------------
(* ReplaceNameTransformer(old, new) and then ReplaceNameTransformer(new,   *)
(* old) on one text                                                        *)

MaxNameLen == 3
MaxForms == 2

NameChars == LowerLetters \cup {"1", "_"}

\* snake_case identifiers: a letter first, no underscore last or doubled
Identifiers ==
  {n \in UNION {[1..k -> NameChars] : k \in 1..MaxNameLen} :
     /\ n[1] \in LowerLetters
     /\ n[Len(n)] # "_"
     /\ \A i \in 1..(Len(n) - 1) : ~(n[i] = "_" /\ n[i + 1] = "_")}

Forms(name) == {name, PascalCase(name), upper(name)}

\* texts made of forms of one name, a blank between two of them
RECURSIVE JoinBlank(_, _)
JoinBlank(words, i) ==
  IF i > Len(words) THEN <<>>
  ELSE (IF i > 1 THEN <<" ">> ELSE <<>>) \o words[i] \o JoinBlank(words, i + 1)

TextsOf(name) ==
  {JoinBlank(w, 1) : w \in UNION {[1..k -> Forms(name)] : k \in 1..MaxForms}}

RenameForward ==
  /\ r_pc = "text"
  /\ r_out' = preserve_case_replace(ReplaceNameTransformer(r_old, r_new), r_text)
  /\ r_pc' = "renamed"
  /\ UNCHANGED <<r_old, r_new, r_text, r_back>>
  /\ UNCHANGED <<convVars, superVars, finderVars, mergeVars, insVars>>

RenameBackward ==
  /\ r_pc = "renamed"
  /\ r_back' = preserve_case_replace(ReplaceNameTransformer(r_new, r_old), r_out)
  /\ r_pc' = "back"
  /\ UNCHANGED <<r_old, r_new, r_text, r_out>>
  /\ UNCHANGED <<convVars, superVars, finderVars, mergeVars, insVars>>

RenameInit ==
  /\ ConvInit /\ SuperIdle /\ FinderIdle /\ MergeIdle /\ InsertIdle
  /\ r_old \in Identifiers
  /\ r_new \in Identifiers
  /\ r_text \in TextsOf(r_old)
  /\ r_out = <<>> /\ r_back = <<>>
  /\ r_pc = "text"

RenameNext == RenameForward \/ RenameBackward

RenameSpec == RenameInit /\ [][RenameNext]_vars

-----------------------------------------------------------------------------
(* SuperTransformer.leave_FunctionDef on a method m the diff class         *)
(* overrides                                                               *)

MaxBody == 3
MaxOverride == 2

Bodies(S, n) == UNION {[1..k -> S] : k \in 0..n}

\* the next Return of the method body is left
SuperTransformer_leave_Return ==
  /\ s_pc = "parsed"
  /\ \E k \in (s_i + 1)..Len(s_override) :
       /\ IsReturn(s_override[k])
       /\ \A j \in (s_i + 1)..(k - 1) : ~IsReturn(s_override[j])
       /\ s_i' = k
       /\ s_override' = [s_override EXCEPT ![k] = leave_Return(@).node]
       /\ s_pc' = IF leave_Return(s_override[k]).err # "" THEN "raised" ELSE "parsed"
  /\ UNCHANGED <<s_base, s_result>>
  /\ UNCHANGED <<convVars, renVars, finderVars, mergeVars, insVars>>

SuperTransformer_leave_FunctionDef ==
  /\ s_pc = "parsed"
  /\ \A k \in (s_i + 1)..Len(s_override) : ~IsReturn(s_override[k])
  /\ s_result' = replace_super_calls(s_override, "m", s_base)
  /\ s_pc' = "spliced"
  /\ UNCHANGED <<s_base, s_override, s_i>>
  /\ UNCHANGED <<convVars, renVars, finderVars, mergeVars, insVars>>

SuperInit ==
  /\ ConvInit /\ RenameIdle /\ FinderIdle /\ MergeIdle /\ InsertIdle
  /\ s_base \in Bodies(PlainStmts, MaxBody)
  /\ s_override \in Bodies(OverrideStmts, MaxOverride) \ {<<>>}
  /\ s_result = <<>>
  /\ s_pc = "parsed" /\ s_i = 0

SuperNext ==
  \/ SuperTransformer_leave_Return
  \/ SuperTransformer_leave_FunctionDef

SuperSpec == SuperInit /\ [][SuperNext]_vars

-----------------------------------------------------------------------------
(* One ClassFinder traversal, callback by callback, over a module whose    *)
(* top-level statements are classes, functions and assignments             *)

MaxDefs == 2
MaxBases == 2
MaxRefs == 1

FinderNames == {Name(NoModel, "A"), Name(NoModel, "B")}

\* the base lists `(X)`, `(X, Y)`, ...: every Arg but the last carries the
\* comma that follows it
ArgList(values) ==
  [i \in DOMAIN values |-> Arg(values[i], values[i] # NnModule, i < Len(values))]

\* a class names a base once
BaseLists ==
  {ArgList(vs) : vs \in {b \in Bodies(FinderNames \cup {NnModule}, MaxBases) :
                           \A i, j \in DOMAIN b : b[i] = b[j] => i = j}}

Finder_visit_ClassDef ==
  /\ f_ev # "leave_Module" /\ f_cur = <<>> /\ f_n < MaxDefs
  /\ \E name \in FinderNames, bases \in BaseLists :
       LET node == Stmt("class", name, bases, <<>>, f_n + 1, {}) IN
       /\ finder' = visit_ClassDef(finder, node)
       /\ f_cur' = <<node>>
       /\ f_top' = f_top \cup {name}
  /\ f_arg' = 1 /\ f_refs' = 0 /\ f_n' = f_n + 1
  /\ f_ev' = "visit_ClassDef"
  /\ UNCHANGED <<convVars, renVars, superVars, mergeVars, insVars>>

\* the next base of the class: leave_Name on its Name, in the global scope,
\* then leave_Arg
Finder_leave_Arg ==
  /\ f_cur # <<>> /\ f_arg <= Len(f_cur[1].bases)
  /\ LET arg == f_cur[1].bases[f_arg]
         named == IF arg.isName THEN leave_Name(finder, arg.value, <<>>) ELSE finder
     IN finder' = leave_Arg(named, arg, <<f_cur[1].name>>)
  /\ f_arg' = f_arg + 1
  /\ f_ev' = "leave_Arg"
  /\ UNCHANGED <<f_cur, f_refs, f_n, f_top>>
  /\ UNCHANGED <<convVars, renVars, superVars, mergeVars, insVars>>

\* a Name inside the body of the class or function being traversed, or at
\* the top level of the module between two definitions
Finder_leave_Name ==
  /\ f_ev # "leave_Module" /\ f_refs < MaxRefs
  /\ f_cur # <<>> => f_arg > Len(f_cur[1].bases)
  /\ \E value \in FinderNames :
       finder' = leave_Name(finder, value,
                            IF f_cur = <<>> THEN <<>> ELSE <<f_cur[1].name>>)
  /\ f_refs' = f_refs + 1
  /\ f_ev' = "leave_Name"
  /\ UNCHANGED <<f_cur, f_arg, f_n, f_top>>
  /\ UNCHANGED <<convVars, renVars, superVars, mergeVars, insVars>>

Finder_visit_FunctionDef ==
  /\ f_ev # "leave_Module" /\ f_cur = <<>> /\ f_n < MaxDefs
  /\ \E name \in FinderNames :
       LET node == Stmt("function", name, <<>>, <<>>, f_n + 1, {}) IN
       /\ finder' = visit_FunctionDef(finder, node, TRUE)
       /\ f_cur' = <<node>>
       /\ f_top' = f_top \cup {name}
  /\ f_arg' = 1 /\ f_refs' = 0 /\ f_n' = f_n + 1
  /\ f_ev' = "visit_FunctionDef"
  /\ UNCHANGED <<convVars, renVars, superVars, mergeVars, insVars>>

Finder_visit_SimpleStatementLine ==
  /\ f_ev # "leave_Module" /\ f_cur = <<>> /\ f_n < MaxDefs
  /\ \E name \in FinderNames :
       /\ finder' = visit_SimpleStatementLine(
                      finder, Stmt("assign", name, <<>>, <<>>, f_n + 1, {}), TRUE)
       /\ f_top' = f_top \cup {name}
  /\ f_n' = f_n + 1
  /\ f_ev' = "visit_SimpleStatementLine"
  /\ UNCHANGED <<f_cur, f_arg, f_refs>>
  /\ UNCHANGED <<convVars, renVars, superVars, mergeVars, insVars>>

\* a class, a function or an assignment in the body of the class or function
\* being traversed: the same callbacks, the parent is not the Module
Finder_visit_Nested ==
  /\ f_cur # <<>> /\ f_arg > Len(f_cur[1].bases) /\ f_n < MaxDefs
  /\ \E name \in FinderNames, kind \in {"class", "function", "assign"} :
       LET node == Stmt(kind, name, <<>>, <<>>, f_n + 1, {}) IN
       /\ finder' = IF kind = "class" THEN visit_ClassDef(finder, node)
                    ELSE IF kind = "function" THEN visit_FunctionDef(finder, node, FALSE)
                    ELSE visit_SimpleStatementLine(finder, node, FALSE)
       /\ f_ev' = IF kind = "class" THEN "visit_ClassDef"
                  ELSE IF kind = "function" THEN "visit_FunctionDef"
                  ELSE "visit_SimpleStatementLine"
  /\ f_n' = f_n + 1
  /\ UNCHANGED <<f_cur, f_arg, f_refs, f_top>>
  /\ UNCHANGED <<convVars, renVars, superVars, mergeVars, insVars>>

\* the traversal leaves the class or function; ClassFinder has no callback
\* for it
Finder_leave_Def ==
  /\ f_cur # <<>> /\ f_arg > Len(f_cur[1].bases)
  /\ f_cur' = <<>>
  /\ f_ev' = "leave_Def"
  /\ UNCHANGED <<finder, f_arg, f_refs, f_n, f_top>>
  /\ UNCHANGED <<convVars, renVars, superVars, mergeVars, insVars>>

Finder_leave_Module ==
  /\ f_ev # "leave_Module" /\ f_cur = <<>>
  /\ finder' = ClassFinder_leave_Module(finder)
  /\ f_ev' = "leave_Module"
  /\ UNCHANGED <<f_cur, f_arg, f_refs, f_n, f_top>>
  /\ UNCHANGED <<convVars, renVars, superVars, mergeVars, insVars>>

FinderInit == ConvInit /\ RenameIdle /\ SuperIdle /\ FinderIdle /\ MergeIdle /\ InsertIdle

FinderNext ==
  \/ Finder_visit_ClassDef
  \/ Finder_leave_Arg
  \/ Finder_leave_Name
  \/ Finder_visit_FunctionDef
  \/ Finder_visit_SimpleStatementLine
  \/ Finder_visit_Nested
  \/ Finder_leave_Def
  \/ Finder_leave_Module

FinderSpec == FinderInit /\ [][FinderNext]_vars

-----------------------------------------------------------------------------
(* replace_call_to_super on the methods of the two classes.  A parameter   *)
(* is its name and the class whose declaration (annotation, default) it    *)
(* carries; a method is its name, its params, its star_kwarg (<<>> for     *)
(* none) and its body.                                                     *)

MaxParams == 2

Param(name, of) == [name |-> name, of |-> of]
Method(name, params, star_kwarg, body) ==
  [name |-> name, params |-> params, star_kwarg |-> star_kwarg, body |-> body]

\* the dicts {f.name.value: f for f in node.body.body}: their keys, and the
\* value under a key (the last method of that name)
MethodNames(methods) == {methods[i].name : i \in DOMAIN methods}
MethodNamed(methods, name) ==
  LET at == {i \in DOMAIN methods : methods[i].name = name}
  IN methods[CHOOSE i \in at : \A j \in at : j <= i]

\* the override's parameters taken whole
OverrideParams_all(params) == params
\* new_params.params[1:]
OverrideParams(params) == Tail(params)

\* parent_params after parent_params.update(...), as list(parent_params.values())
MergedParams(func, updated) ==
  LET items(ps) == [i \in DOMAIN ps |-> <<ps[i].name, ps[i]>>]
      parent_params == DictLiteral(<<>>, items(func.params)
                                           \o items(OverrideParams(updated.params)), 1)
  IN [i \in DOMAIN parent_params |-> parent_params[i][2]]

\* one pass of the loop over original_methods.items()
MergeMethod(func, updated_methods) ==
  IF func.name \in MethodNames(updated_methods)
  THEN LET updated == MethodNamed(updated_methods, func.name)
           kwarg_name == updated.star_kwarg
           super_kwargs == kwarg_name # <<>> /\ kwarg_name[1].name = "super_kwargs"
       IN [func EXCEPT
             !.body = updated.body,
             !.params = IF super_kwargs THEN MergedParams(func, updated) ELSE updated.params,
             !.star_kwarg = IF super_kwargs THEN func.star_kwarg ELSE updated.star_kwarg]
  ELSE func

end_meth(original_methods, updated_methods) ==
  [i \in DOMAIN original_methods |-> MergeMethod(original_methods[i], updated_methods)]

\* new_module.visit(SuperTransformer(temp_module, original_methods,
\* updated_methods)): leave_FunctionDef on every method of the class
SuperTransformer_visit(methods, original_methods, updated_methods) ==
  [i \in DOMAIN methods |->
     IF methods[i].name \in MethodNames(updated_methods)
     THEN [methods[i] EXCEPT
             !.body = replace_super_calls(
                        @, methods[i].name,
                        MethodNamed(original_methods, methods[i].name).body)]
     ELSE methods[i]]

Merge_replace_call_to_super ==
  /\ c_pc = "parsed"
  /\ c_result' = SuperTransformer_visit(end_meth(c_original, c_updated),
                                        c_original, c_updated)
  /\ c_pc' = "merged"
  /\ UNCHANGED <<c_original, c_updated>>
  /\ UNCHANGED <<convVars, renVars, superVars, finderVars, insVars>>

\* the parameter lists (self, ...) with up to MaxParams further parameters
ParamLists(of) ==
  {<<Param("self", of)>> \o [i \in DOMAIN ns |-> Param(ns[i], of)] :
     ns \in {q \in Bodies({"x", "y", "z"}, MaxParams) :
               \A i, j \in DOMAIN q : i # j => q[i] # q[j]}}

BaseClasses ==
  LET n == Method("n", <<Param("self", "base")>>, <<>>, <<BodyStmt("s2", 0)>>)
      ms == {Method("m", ps, kw, <<BodyStmt("s1", 0), BodyStmt("s2", 0)>>) :
               ps \in ParamLists("base"), kw \in {<<>>, <<Param("kwargs", "base")>>}}
  IN {<<n>>} \cup {<<f>> : f \in ms} \cup {<<f, n>> : f \in ms}

DiffClasses ==
  LET extra == Method("extra", <<Param("self", "override")>>, <<>>, <<BodyStmt("s3", 0)>>)
      ms == {Method("m", ps, kw, body) :
               ps \in ParamLists("override"),
               kw \in {<<>>, <<Param("kwargs", "override")>>,
                       <<Param("super_kwargs", "override")>>},
               body \in {<<BodyStmt("s3", 0)>>, <<BodyStmt("s1", 0), SuperReturn>>}}
  IN {<<extra>>} \cup {<<f>> : f \in ms} \cup {<<f, extra>> : f \in ms}

MergeInit ==
  /\ ConvInit /\ RenameIdle /\ SuperIdle /\ FinderIdle /\ InsertIdle
  /\ c_original \in BaseClasses
  /\ c_updated \in DiffClasses
  /\ c_result = <<>>
  /\ c_pc = "parsed"

MergeNext == Merge_replace_call_to_super

MergeSpec == MergeInit /\ [][MergeNext]_vars

-----------------------------------------------------------------------------
(* The dependency loop of leave_ClassDef on its own: a diff file that      *)
(* defines some of the helpers of the base module itself and then the      *)
(* class GemmaModel(LlamaModel).  The renamed base module has four helpers *)
(* before the class; i_refs says which of them the class body refers to.   *)

MaxPrior == 2

Helpers ==
  << Stmt("function", Name(NoModel, "rot"), <<>>, <<>>, 1, {}),
     Stmt("assign", Name(Gemma, "DOC"), <<>>, <<>>, 2, {Gemma}),
     Stmt("function", Name(NoModel, "act"), <<>>, <<>>, 3, {}),
     Stmt("class", Name(Gemma, "Norm"), <<Arg(NnModule, FALSE, FALSE)>>, <<>>, 4,
          {Gemma}) >>
HelperNames == {Helpers[i].name : i \in DOMAIN Helpers}
HelperLine == [n \in HelperNames |-> (CHOOSE i \in DOMAIN Helpers : Helpers[i].name = n)]

\* the parsed base module, after the renaming
InsertModule(refs) ==
  Append(Helpers,
         Stmt("class", Name(Gemma, "Model"), <<Arg(PreTrainedModel, TRUE, FALSE)>>,
              SortDesc(refs, HelperLine), 5, {Gemma}))

\* leave_FunctionDef, leave_SimpleStatementLine and leave_ClassDef of a class
\* without imported base: the diff file's own definition of a name
Insert_leave_Definition ==
  /\ UNCHANGED <<convVars, renVars, superVars, finderVars, mergeVars>>
  /\ i_pc = "walk" /\ Len(i_body) < MaxPrior
  /\ \E n \in HelperNames \ Keys(i_body) :
       /\ i_index' = i_index + 100
       /\ i_body' = BodyPut(i_body, n, i_index + 100,
                            Node(n, "diff", Helpers[HelperLine[n]].kind, {}, {}))
  /\ UNCHANGED <<i_refs, i_claimed, i_pc>>

\* leave_ClassDef of GemmaModel(LlamaModel)
Insert_leave_ClassDef ==
  /\ UNCHANGED <<convVars, renVars, superVars, finderVars, mergeVars>>
  /\ i_pc = "walk"
  /\ LET class_name == Name(Gemma, "Model")
         class_finder == ClassFinder_visit(InsertModule(i_refs))
         c == InsertDeps([new_body |-> i_body, inserted_deps |-> i_claimed],
                         class_finder, ListDependencies(class_finder, class_name), 1,
                         i_index + 100)
     IN /\ i_index' = i_index + 100
        /\ i_claimed' = c.inserted_deps
        /\ i_body' = BodyPut(c.new_body, class_name, i_index + 100,
                             Node(class_name, "merged", "ClassDef", {Gemma}, {}))
  /\ i_pc' = "class"
  /\ UNCHANGED i_refs

InsertInit ==
  /\ ConvInit /\ RenameIdle /\ SuperIdle /\ FinderIdle /\ MergeIdle
  /\ i_refs \in SUBSET HelperNames
  /\ i_body = <<>> /\ i_claimed = {} /\ i_index = 0
  /\ i_pc = "walk"

InsertNext == Insert_leave_Definition \/ Insert_leave_ClassDef

InsertSpec == InsertInit /\ [][InsertNext]_vars

-----------------------------------------------------------------------------
(* Properties of the conversion                                            *)

Assembled == phase \in {"left", "written"}
Positions(name) ==
  {i \in DOMAIN module_body :
     module_body[i].name = name /\ module_body[i].kind \notin {"Import", "ImportFrom"}}
ClassIdx == {i \in DOMAIN diff : diff[i].k = "ClassDef"}

\* the names that the import statements before statement i recorded
ImportedBefore(i) ==
  UNION {RecordedNames(diff[j]) : j \in {k \in 1..(i - 1) : diff[k].k = "ImportFrom"}}

\* C1: in the module assembled by leave_Module, every dependency Y that was
\* pulled in from the renamed base module for a diff class X is emitted
\* strictly before X.
C1_DependenciesBeforeClass ==
  Assembled =>
    \A r \in resolved : \A y \in r.deps :
      \A j \in Positions(r.class_name) :
        /\ Positions(y) # {}
        /\ \A i \in Positions(y) : i < j

\* the override is a prefix without super().m call, then the super().m call
Prefix == SubSeq(s_override, 1, Len(s_override) - 1)
PrefixThenSuper ==
  /\ s_pc = "spliced" /\ s_override # <<>>
  /\ IsSuperCall(s_override[Len(s_override)], "m")
  /\ \A i \in DOMAIN Prefix : ~IsSuperCall(Prefix[i], "m")
OverrideTexts == {strip(stmt_code(s_override[i])) : i \in DOMAIN s_override}
Unmatched(stmt) == strip(stmt_code(stmt)) \notin OverrideTexts
KeptFromBase(stmt) ==
  Unmatched(stmt) /\ ~(DOCSTRING_NODE(stmt) /\ DOCSTRING_NODE(s_override[1]))
S1 == BodyStmt("s1", 0)
S2 == BodyStmt("s2", 0)
S3 == BodyStmt("s3", 0)

\* C2 as claimed: for an override made of a prefix P and then the super().m
\* statement, the spliced body is P followed by exactly the statements of the
\* base body whose stripped text equals no statement of the override, in the
\* base body's order.
C2_SpliceKeepsUnmatched ==
  PrefixThenSuper => s_result = Prefix \o SelectSeq(s_base, Unmatched)

\* C2 amended: the spliced body is P followed by exactly the statements of
\* the base body whose stripped text equals no statement of the override and
\* which are not a docstring while the override opens with a docstring, in
\* the base body's order; base [s1, s2, s3] under override
\* [s1, return super().m()] gives [s1, s2, s3].
C2_SpliceSkipsDocstring ==
  /\ PrefixThenSuper => s_result = Prefix \o SelectSeq(s_base, KeptFromBase)
  /\ (s_pc = "spliced" /\ s_base = <<S1, S2, S3>> /\ s_override = <<S1, SuperReturn>>)
       => s_result = <<S1, S2, S3>>
C2_Witness ==
  /\ PrefixThenSuper /\ Len(Prefix) = 1
  /\ DOCSTRING_NODE(s_override[1])
  /\ \E i \in DOMAIN s_base : DOCSTRING_NODE(s_base[i]) /\ Unmatched(s_base[i])
  /\ \E i \in DOMAIN s_base : ~Unmatched(s_base[i])
  /\ \E i \in DOMAIN s_base : KeptFromBase(s_base[i])
  /\ Len(s_result) = 2

NamedConfig(n) == n.stem \in {"Config", "TextConfig"}
ConfigIdx == {i \in ClassIdx : NamedConfig(diff[i].name)}
ModelIdx == ClassIdx \ ConfigIdx
InSeq(nodes, name) == \E i \in DOMAIN nodes : nodes[i].name = name

\* C3: with a Config class and another class in the diff file, the Config
\* class is only in the configuration output, the other class only in the
\* modeling output, and neither output is empty.
C3_ConfigModelingSeparation ==
  (phase = "written" /\ ConfigIdx # {} /\ ModelIdx # {}) =>
    /\ \E f \in files : f.file = "modeling" /\ f.body = module_body /\ Len(f.body) > 0
    /\ \E f \in files : f.file = "configuration" /\ f.body = config_body /\ Len(f.body) > 0
    /\ \A i \in ConfigIdx : ~InSeq(module_body, diff[i].name)
    /\ \A i \in ModelIdx : InSeq(module_body, diff[i].name) /\ ~InSeq(config_body, diff[i].name)
    /\ \A i \in DOMAIN config_body :
         config_body[i].kind = "ClassDef" => NamedConfig(config_body[i].name)
    /\ Cardinality(ConfigIdx) = 1 => \A i \in ConfigIdx : InSeq(config_body, diff[i].name)
C3_Witness ==
  /\ phase = "written" /\ ConfigIdx # {} /\ ModelIdx # {}
  /\ \E i \in DOMAIN module_body : module_body[i].src = "merged"

IsModelingPath(p) ==
  /\ Len(p) > 6
  /\ SubSeq(p, 1, 4) = <<"transformers", ".", "models", ".">>
  /\ LastDot(p, Len(p)) > 5
  /\ SubSeq(TrailingSegment(p), 1, 2) = <<"modeling", "_">>
ConfigFromModeling(st) ==
  /\ st.k = "ImportFrom" /\ IsModelingPath(st.path)
  /\ \E i \in DOMAIN st.names : NamedConfig(st.names[i])

\* C4: an import statement that takes a name containing "Config" from a
\* transformers.models.*.modeling_* path makes visit_ImportFrom raise
\* ValueError, wherever the name stands in the list and whatever precedes the
\* statement, and no output file is written.
C4_ConfigImportRaises ==
  \A i \in DOMAIN diff :
    ConfigFromModeling(diff[i]) =>
      i = Len(diff) /\ phase = "raised" /\ err = "ValueError" /\ files = {}
C4_Witness ==
  /\ Len(diff) > 1 /\ ConfigFromModeling(diff[Len(diff)])
  /\ ~NamedConfig(diff[Len(diff)].names[1])
  /\ phase = "raised" /\ err = "ValueError"

\* C5: a text made of the snake_case, PascalCase and UPPER_CASE forms of old
\* comes back unchanged from ReplaceNameTransformer(old, new) followed by
\* ReplaceNameTransformer(new, old).
C5_RenameRoundTrip == r_pc = "back" => r_back = r_text

\* C6: no step of the traversal removes a name from a recorded dependency
\* set, and right after visit_ClassDef on a class A, the set of A holds every
\* declared base B of A and all of B's set.
C6_DependencySetsGrow ==
  [][LET before == finder.class_dependency_mapping
         after == finder'.class_dependency_mapping
     IN /\ \A n \in DOMAIN before : n \in DOMAIN after /\ before[n] \subseteq after[n]
        /\ f_ev' = "visit_ClassDef" =>
             \A i \in DOMAIN f_cur'[1].bases :
               LET A == f_cur'[1].name
                   B == f_cur'[1].bases[i].value
               IN /\ A \in DOMAIN after
                  /\ B \in after[A]
                  /\ DGet(after, B, {}) \subseteq after[A]]_vars

\* C7: for every diff class whose base is imported from the module of an old
\* model, neither the emitted class nor any dependency pulled in for it
\* mentions the old model name.
C7_NoOldNameLeft ==
  Assembled =>
    \A r \in resolved : \A i \in DOMAIN module_body :
      module_body[i].name \in {r.class_name} \cup r.deps
        => TrailingModel(r.path) \notin module_body[i].mentions

NameBases(st) == {st.bases[i].value : i \in {j \in DOMAIN st.bases : st.bases[j].isName}}
UnimportedBases(i) == NameBases(diff[i]) \ ImportedBefore(i)

C10_ExtractedModelName ==
  \A call \in renamer_calls : call[2] = TrailingModel(call[1])

\* the methods both classes define, the override declaring **super_kwargs
SharedWithSuperKwargs ==
  {name \in MethodNames(c_original) \cap MethodNames(c_updated) :
     LET kw == MethodNamed(c_updated, name).star_kwarg
     IN kw # <<>> /\ kw[1].name = "super_kwargs"}
ParamNamesOf(params) == {params[i].name : i \in DOMAIN params}
Redeclared(params, name) ==
  params[CHOOSE j \in 2..Len(params) : params[j].name = name]

\* C11: a method the diff class defines under a name the base class does not
\* have is in the body of the class replace_call_to_super returns, as written.
C11_DiffOnlyMethodKept ==
  c_pc = "merged" =>
    \A i \in DOMAIN c_updated :
      c_updated[i].name \notin MethodNames(c_original) =>
        \E j \in DOMAIN c_result : c_result[j] = c_updated[i]

\* C12: under **super_kwargs the merged parameter list is the base method's
\* parameters in the base's order, each one the override re-declares after
\* its first parameter replaced by the override's declaration, followed by
\* the override's further parameters that the base does not have.
C12_MergedParameters ==
  c_pc = "merged" =>
    \A name \in SharedWithSuperKwargs :
      LET base == MethodNamed(c_original, name).params
          over == MethodNamed(c_updated, name).params
          kept == [i \in DOMAIN base |->
                     IF base[i].name \in ParamNamesOf(Tail(over))
                     THEN Redeclared(over, base[i].name) ELSE base[i]]
          added == SelectSeq(Tail(over), LAMBDA q : q.name \notin ParamNamesOf(base))
      IN MethodNamed(c_result, name).params = kept \o added
C12_Witness ==
  /\ c_pc = "merged"
  /\ \E name \in SharedWithSuperKwargs :
       LET base == MethodNamed(c_original, name).params
           over == MethodNamed(c_updated, name).params
           merged == MethodNamed(c_result, name).params
       IN /\ Len(base) = 3 /\ Len(over) = 3
          /\ base[2].name = over[3].name
          /\ over[2].name \notin ParamNamesOf(base)
          /\ merged = <<base[1], over[3], base[3], over[2]>>

\* C13: under **super_kwargs the merged signature has the override's
\* variadic-keyword slot, so the flattened method has a variadic keyword
\* parameter whether or not the base method declares one.
C13_OverrideStarKwargKept ==
  c_pc = "merged" =>
    \A name \in SharedWithSuperKwargs :
      /\ MethodNamed(c_result, name).star_kwarg = MethodNamed(c_updated, name).star_kwarg
      /\ MethodNamed(c_result, name).star_kwarg # <<>>

\* the names of the classes of a node list, and of the diff file's classes
\* named *Config*, in order
ClassNamesIn(nodes) ==
  LET cs == SelectSeq(nodes, LAMBDA n : n.kind = "ClassDef")
  IN [i \in DOMAIN cs |-> cs[i].name]
DiffConfigNames ==
  LET cs == SelectSeq(diff, LAMBDA st : st.k = "ClassDef" /\ NamedConfig(st.name))
  IN [i \in DOMAIN cs |-> cs[i].name]

\* C14: after the walk, config_body holds every diff class whose name
\* contains "Config", in diff-file order, and each of them is in the
\* configuration module that is written.
C14_ConfigClassesAccumulated ==
  /\ Assembled => ClassNamesIn(config_body) = DiffConfigNames
  /\ (phase = "written" /\ DiffConfigNames # <<>>) =>
       \E f \in files : f.file = "configuration" /\ ClassNamesIn(f.body) = DiffConfigNames

\* the top-level statements of the diff file that take an insertion index,
\* and those of them that are entered in new_body
TakesIndex(st) ==
  \/ st.k \in {"FunctionDef", "Assign", "ClassDef"}
  \/ st.k = "If" /\ ~AvailabilityTest(st.path)
EnteredInBody(st) == TakesIndex(st) /\ ~(st.k = "ClassDef" /\ NamedConfig(st.name))

\* C15: between two statements of the walk, every function, assignment,
\* conditional block and class of the diff file read so far is a key of
\* new_body with an insertion index greater than that of every earlier
\* one, and global_scope_index is 100 times the number of such statements.
C15_InsertionIndexIncreases ==
  (phase = "walk" /\ ~pending) =>
    /\ global_scope_index
         = 100 * Cardinality({i \in DOMAIN diff : TakesIndex(diff[i])})
    /\ \A i \in DOMAIN diff :
         EnteredInBody(diff[i]) =>
           /\ diff[i].name \in Keys(new_body)
           /\ \A j \in 1..(i - 1) :
                EnteredInBody(diff[j]) =>
                  /\ diff[j].name \in Keys(new_body)
                  /\ Entry(new_body, diff[j].name).insert_idx
                       < Entry(new_body, diff[i].name).insert_idx

\* no entry of a log occurs twice
NoRepeat(log) == \A i, j \in DOMAIN log : log[i] = log[j] => i = j

\* the classes of the diff file that inherit from a class imported from path
UsersOf(path) ==
  {i \in DOMAIN diff :
     /\ diff[i].k = "ClassDef"
     /\ \E b \in DOMAIN diff[i].bases :
          /\ diff[i].bases[b].isName
          /\ DGet(imported_mapping, diff[i].bases[b].value, <<>>) = path}

\* C16: within one conversion a dotted path is read and parsed at most
\* once and analysed at most once, and a path that is cached stays cached
\* with the analysis it was cached with.
C16_ReadAndAnalysedOnce ==
  [][/\ NoRepeat(read_log') /\ NoRepeat(analysis_log')
     /\ transformers_imports \subseteq transformers_imports'
     /\ \A i \in DOMAIN visited_module :
          i \in DOMAIN visited_module' /\ visited_module'[i] = visited_module[i]]_vars

\* two names imported from one path and two classes that inherit from
\* classes of it: one read, one analysis
C16_Witness ==
  /\ phase = "walk" /\ ~pending
  /\ Len(diff) = 3 /\ diff[1].k = "ImportFrom" /\ Len(diff[1].names) = 2
  /\ Cardinality(UsersOf(diff[1].path)) = 2
  /\ read_log = <<<<1, diff[1].path>>>>
  /\ analysis_log = <<<<1, diff[1].path>>>>

\* C17: over the files of a run, a dotted path that was read while one
\* file was converted is not read again while a later file is converted.
C17_SourceReadOncePerRun ==
  \A i, j \in DOMAIN read_log : read_log[i][2] = read_log[j][2] => i = j

\* C19: the files are converted one after another in the given order; once
\* a conversion has raised nothing more happens, so no later file is
\* converted, and a file that was written stays as written.
C19_ExceptionEndsRun ==
  [][/\ phase # "raised"
     /\ files \subseteq files'
     /\ file_no' # file_no => phase = "written" /\ file_no' = file_no + 1]_vars

\* the second file raised after the first was written
C19_Witness ==
  /\ file_no = 2 /\ phase = "raised"
  /\ \E f \in files : f.n = 1
  /\ \A f \in files : f.n = 1

\* the files written for the diff file at hand
WrittenNow(name) == {f \in files : f.n = file_no /\ f.file = name}

\* C18: when convert_file is done, the modeling file is written exactly when
\* the modeling text is not empty, the configuration file exactly when a
\* class named *Config* was met, and every file written starts with the
\* banner and holds a text that is not empty.
C18_OutputFiles ==
  phase = "written" =>
    /\ WrittenNow("modeling") # {} <=> Len(module_body) > 0
    /\ WrittenNow("configuration") # {} <=> DiffConfigNames # <<>>
    /\ \A f \in WrittenNow("modeling") \cup WrittenNow("configuration") :
         /\ f.text[1] = AUTO_GENERATED_MESSAGE
         /\ Len(f.text[2].lines) > 0
         /\ f.text[2].lines = f.body

\* a diff file of one Config class: a configuration file and no modeling file
C18_Witness ==
  /\ phase = "written" /\ DiffConfigNames # <<>>
  /\ WrittenNow("configuration") # {} /\ WrittenNow("modeling") = {}

\* C20: after a ClassFinder traversal, every name in classes, assignments
\* and function_def is a name the module defines at its top level.
C20_OnlyTopLevelRegistered ==
  f_ev = "leave_Module" => Registered(finder) \subseteq f_top

\* the `if` blocks of the diff file whose test names an is_*_available
\* function, as nodes; the nodes of the import block
GuardNodes ==
  {DiffNode(diff[i]) : i \in {j \in DOMAIN diff :
                               /\ diff[j].k = "If"
                               /\ \E t \in DOMAIN diff[j].path : diff[j].path[t] = "available"}}
IsImportNode(n) == n.kind \in {"Import", "ImportFrom"} \/ n \in GuardNodes
BodyPart == SelectSeq(module_body, LAMBDA n : ~IsImportNode(n))

\* the module is the import block, then the entries of new_body by index;
\* every guard block is in it, before every entry, and is no entry
ImportsThenBody ==
  /\ \A i, j \in DOMAIN module_body :
       (i < j /\ IsImportNode(module_body[j])) =>
         IsImportNode(module_body[i]) /\ module_body[i] # module_body[j]
  /\ \A i \in DOMAIN all_imports : \E j \in DOMAIN module_body : module_body[j] = all_imports[i]
  /\ \A g \in GuardNodes :
       /\ \E i \in DOMAIN module_body : module_body[i] = g
       /\ g.name \notin Keys(new_body)
  /\ Len(BodyPart) = Len(new_body)
  /\ \A k \in DOMAIN BodyPart :
       \E e \in DOMAIN new_body :
         /\ new_body[e].node = BodyPart[k]
         /\ \A l \in 1..(k - 1) :
              \E d \in DOMAIN new_body :
                /\ new_body[d].node = BodyPart[l]
                /\ new_body[d].insert_idx <= new_body[e].insert_idx

\* C21 as stated: the module assembled by leave_Module is the import block
\* followed by the entries of new_body in ascending insertion index.
C21_ImportBlockThenBody == Assembled => ImportsThenBody

\* C21: when new_body has an entry, the module assembled by leave_Module is
\* the import block (guard blocks included) followed by the entries of
\* new_body in ascending insertion index; when new_body is empty the module
\* is empty.
C21_ImportBlockThenBodyIfAny ==
  Assembled =>
    /\ Len(new_body) > 0 => ImportsThenBody
    /\ Len(new_body) = 0 => module_body = <<>>

\* a guard block that comes after a statement of the body
C21_Witness ==
  /\ Assembled /\ Len(new_body) > 0 /\ Len(diff) > 1
  /\ diff[1].k \in {"Assign", "FunctionDef"}
  /\ DiffNode(diff[Len(diff)]) \in GuardNodes
  /\ module_body[1] = DiffNode(diff[Len(diff)])

\* how often a text occurs in a body; the super().m statements of the
\* override; the override opens with a docstring
Count(body, text) == Cardinality({i \in DOMAIN body : body[i].text = text})
SuperCalls ==
  Cardinality({i \in DOMAIN s_override :
                 s_override[i].text \in {SuperReturn.text, SuperExpr.text}})
OverrideHasDocstring == s_override[1].text \in DocTexts

\* C22 as stated: an override that opens with a docstring keeps its own
\* docstring and the base's docstrings are left out; under any other
\* override every docstring of the base body is spliced in with the base
\* statements.
C22_DocstringHandling ==
  s_pc = "spliced" =>
    \A d \in DocTexts :
      IF OverrideHasDocstring
      THEN s_result[1] = s_override[1] /\ Count(s_result, d) = Count(s_override, d)
      ELSE Count(s_result, d) = Count(s_override, d) + SuperCalls * Count(s_base, d)

\* C22: an override that opens with a docstring keeps its own docstring and
\* the base's docstrings are left out; under any other override a docstring
\* of the base body is spliced in with the base statements unless a
\* statement of the override has the same stripped text.
C22_DocstringUnlessDuplicate ==
  s_pc = "spliced" =>
    \A d \in DocTexts :
      IF OverrideHasDocstring
      THEN s_result[1] = s_override[1] /\ Count(s_result, d) = Count(s_override, d)
      ELSE Count(s_result, d)
             = Count(s_override, d)
                 + (IF d \in OverrideTexts THEN 0 ELSE SuperCalls * Count(s_base, d))

\* an override without docstring over a base that opens with one
C22_Witness ==
  /\ s_pc = "spliced" /\ ~OverrideHasDocstring /\ SuperCalls = 1
  /\ s_base # <<>> /\ s_base[1].text \in DocTexts
  /\ Count(s_override, s_base[1].text) = 0
  /\ Count(s_result, s_base[1].text) = 1

\* C23: leave_Return on `return super().m(...)` in the method m, which the
\* base class has, returns the statement rewritten, not as written, and
\* raises no exception on any return statement.
C23_ReturnRewritten ==
  [][s_i' # s_i =>
       /\ s_pc' # "raised"
       /\ s_override[s_i'].text = SuperReturn.text => s_override'[s_i'] # s_override[s_i']]_vars

\* the dependency set of a symbol, {} when it has none
DepsOf(cf, name) == DGet(cf.class_dependency_mapping, name, {})
\* the dependency sets but that of name are the same in cf and cg
SameButFor(cf, cg, name) ==
  \A k \in (DOMAIN cf.class_dependency_mapping) \cup (DOMAIN cg.class_dependency_mapping) :
    k # name =>
      /\ k \in DOMAIN cf.class_dependency_mapping <=> k \in DOMAIN cg.class_dependency_mapping
      /\ DepsOf(cf, k) = DepsOf(cg, k)

\* C24: leave_Name on an occurrence of a registered name in the body of the
\* definition S adds the name to the dependency set of S and touches no
\* other set; on an occurrence at global scope, or of a name that is not
\* registered, it leaves every dependency set as it is.
C24_LeaveNameRecordsEdge ==
  [][f_ev' = "leave_Name" =>
       \/ /\ f_cur = <<>>
          /\ finder'.class_dependency_mapping = finder.class_dependency_mapping
       \/ /\ f_cur # <<>>
          /\ \E value \in FinderNames :
               IF value \in Registered(finder)
               THEN /\ value \in DepsOf(finder', f_cur[1].name)
                    /\ DepsOf(finder, f_cur[1].name) \subseteq DepsOf(finder', f_cur[1].name)
                    /\ SameButFor(finder, finder', f_cur[1].name)
               ELSE finder'.class_dependency_mapping = finder.class_dependency_mapping]_vars

\* a function whose body names a class defined before it
C24_Witness ==
  /\ f_ev = "leave_Name" /\ f_cur # <<>> /\ f_cur[1].kind = "function"
  /\ \E value \in DOMAIN finder.classes : value \in DepsOf(finder, f_cur[1].name)

\* the callbacks a traversal has left at most: those of the definitions to
\* come, and those of the definition, or the top-level stretch, at hand
CallbacksLeft ==
  (MaxDefs - f_n) * (MaxBases + MaxRefs + 2)
    + (IF f_cur = <<>> THEN 0 ELSE Len(f_cur[1].bases) + 1 - f_arg + 1)
    + (MaxRefs - f_refs)
    + (IF f_ev = "leave_Module" THEN 0 ELSE 1)

InsertEmitted == SortedBody(i_body, Len(i_body))
EmittedAt(n) == CHOOSE k \in DOMAIN InsertEmitted : InsertEmitted[k].key = n
NewlyInserted == {i_body[k].key : k \in {j \in DOMAIN i_body : i_body[j].node.src = "base"}}

\* C26: the dependencies newly inserted while handling one class are emitted
\* in the same relative order as in the base source, and all of them before
\* the class.
C26_NewDependenciesInSourceOrder ==
  i_pc = "class" =>
    /\ \A x \in NewlyInserted : EmittedAt(x) < EmittedAt(Name(Gemma, "Model"))
    /\ \A x, y \in NewlyInserted :
         HelperLine[x] < HelperLine[y] => EmittedAt(x) < EmittedAt(y)


\* the words of a text, a blank between two of them
RECURSIVE Words(_, _)
Words(text, i) ==
  IF \A j \in i..Len(text) : text[j] # " " THEN <<SubSeq(text, i, Len(text))>>
  ELSE LET j == CHOOSE j \in i..Len(text) :
                  text[j] = " " /\ \A k \in i..(j - 1) : text[k] # " "
       IN <<SubSeq(text, i, j - 1)>> \o Words(text, j + 1)

\* C27: preserve_case_replace replaces a span spelled exactly as one of the
\* three keys by the matching form of new_name, snake_case by snake_case,
\* UPPER_CASE by UPPER_CASE and PascalCase by PascalCase, and leaves the rest
\* of the text (here the blanks between the words) as it is.
C27_CaseFormsReplaced ==
  r_pc \in {"renamed", "back"} =>
    LET in == Words(r_text, 1)
        out == Words(r_out, 1)
    IN /\ Len(out) = Len(in)
       /\ \A k \in DOMAIN in :
            /\ in[k] = r_old => out[k] = r_new
            /\ in[k] = upper(r_old) => out[k] = upper(r_new)
            /\ in[k] = PascalCase(r_old) => out[k] = PascalCase(r_new)


\* C28: when the traversal of a module ends, the dependency sets are
\* transitively closed: with B in the set of A and C in the set of B, C is in
\* the set of A, whatever the order of the definitions and the references.
C28_DependenciesTransitive ==
  f_ev = "leave_Module" =>
    \A A \in DOMAIN finder.class_dependency_mapping :
      \A B \in DepsOf(finder, A) : DepsOf(finder, B) \subseteq DepsOf(finder, A)


\* the top-level definitions of the diff file that go to the modeling output
OwnDefs ==
  {i \in DOMAIN diff :
     /\ diff[i].k \in {"Assign", "FunctionDef", "ClassDef"}
     /\ ~IsConfigClass(diff[i].name)}
\* the diff file defines the name of statement i, which a class it also
\* defines at statement j has among its dependencies
DependencyOf(i, j) ==
  /\ i \in OwnDefs /\ j \in ClassIdx
  /\ \E r \in resolved : r.class_name = diff[j].name /\ diff[i].name \in r.deps

C29_DefinedAfter ==
  /\ Assembled
  /\ \E i, j \in DOMAIN diff : i > j /\ DependencyOf(i, j)


\* C30: in every state of a conversion, no two entries of new_body have the
\* same insertion index, so that leave_Module's sort orders them by index
\* alone.
C30_InsertionIndicesDistinct ==
  \A i, j \in DOMAIN new_body :
    new_body[i].insert_idx = new_body[j].insert_idx => i = j

====
